---- MODULE Spec2Model ----
(***************************************************************************)
(* Product/Business API (src/main.py, src/models/*.py): two in-memory      *)
(* stores, `businesses` keyed by EIN and `products` keyed by product id,   *)
(* each with create / list / get / partial update / delete handlers.       *)
(*                                                                         *)
(* Representation.                                                         *)
(*  - A Python str that the code inspects (EIN, email) is a sequence of    *)
(*    one-character strings; names and phones are TLA+ strings.            *)
(*  - An Optional value is a sequence of length <= 1: None is <<>> and a   *)
(*    present value v is <<v>>.  Every field of a dict or of a pydantic    *)
(*    object is held in this form, so that None is representable in       *)
(*    every field, required or not.                                        *)
(*  - A Python dict with str keys (a JSON body, a model_dump()) is a       *)
(*    function whose domain is the set of keys present.                    *)
(*  - The two stores are insertion-ordered dicts: sequences of            *)
(*    [key, val] entries with pairwise distinct keys.                      *)
(*  - Time is a logical clock `now`, one tick per handled request.         *)
(*  - `resp` is the last response: the handler that ran, the key it was   *)
(*    given, the status code and the body returned.                        *)
(*  - `deleted` is a history variable: the keys whose last successful     *)
(*    create or delete was a delete.  No handler reads it.                 *)
(*  - `threads` holds the requests in flight.  Under Spec each route runs  *)
(*    its handler to completion in one step and `threads` stays empty;     *)
(*    under ConcSpec two business requests run in the thread pool, one     *)
(*    access to `businesses` per step, interleaved in any order.           *)
(***************************************************************************)
EXTENDS Integers, Sequences, FiniteSets, TLC

VARIABLES businesses, products, now, resp, deleted, threads

vars == <<businesses, products, now, resp, deleted, threads>>

\* Longest run of requests explored (the logical clock stops there).
MaxClock == 3

-----------------------------------------------------------------------------
(* Python values *)

None == <<>>

Some(v) == <<v>>

EmptyDict == [k \in {} |-> None]

\* dict.update: keys of b overwrite, the other keys of a are kept.
DictUpdate(a, b) ==
    [k \in (DOMAIN a) \cup (DOMAIN b) |-> IF k \in DOMAIN b THEN b[k] ELSE a[k]]

\* d.get(k, default)
DictGet(d, k, default) == IF k \in DOMAIN d THEN d[k] ELSE default

-----------------------------------------------------------------------------
(* Insertion-ordered dict: the stores *)

Keys(d) == {d[i].key : i \in 1..Len(d)}

Has(d, k) == \E i \in 1..Len(d) : d[i].key = k

IndexOf(d, k) == CHOOSE i \in 1..Len(d) : d[i].key = k

Lookup(d, k) == d[IndexOf(d, k)].val

\* d[k] = v: an existing key keeps its position, a new key is appended.
Assign(d, k, v) ==
    IF Has(d, k)
    THEN [d EXCEPT ![IndexOf(d, k)] = [key |-> k, val |-> v]]
    ELSE Append(d, [key |-> k, val |-> v])

\* del d[k]
Del(d, k) == SelectSeq(d, LAMBDA e : e.key # k)

\* list(d.values())
Values(d) == [i \in 1..Len(d) |-> d[i].val]

-----------------------------------------------------------------------------
(* Field validation *)

Digits == {"0", "1", "2", "3", "4", "5", "6", "7", "8", "9"}

\* pattern ^\d{2}-\d{7}$
MatchesEIN(s) ==
    /\ Len(s) = 10
    /\ s[3] = "-"
    /\ \A i \in (1..10) \ {3} : s[i] \in Digits

AtPositions(s) == {i \in 1..Len(s) : s[i] = "@"}

DotPositions(s) == {i \in 1..Len(s) : s[i] = "."}

\* EmailStr: one "@", a non-empty local part, a domain of at least two
\* non-empty labels separated by dots.
IsEmail(s) ==
    /\ Cardinality(AtPositions(s)) = 1
    /\ LET at == CHOOSE i \in AtPositions(s) : TRUE
           dots == {i \in DotPositions(s) : i > at}
       IN /\ at > 1
          /\ at < Len(s)
          /\ dots # {}
          /\ \A i \in dots : /\ i > at + 1
                             /\ i < Len(s)
                             /\ (i + 1) \notin dots

Lower(c) ==
    CASE c = "A" -> "a"
      [] c = "B" -> "b"
      [] c = "X" -> "x"
      [] c = "I" -> "i"
      [] c = "O" -> "o"
      [] OTHER -> c

\* EmailStr returns the normalized address: the domain in lower case, the
\* local part as given.
NormalizeEmail(s) ==
    LET at == CHOOSE i \in AtPositions(s) : TRUE
    IN [i \in 1..Len(s) |-> IF i > at THEN Lower(s[i]) ELSE s[i]]

Failure == [ok |-> FALSE, value |-> EmptyDict]

Success(v) == [ok |-> TRUE, value |-> v]

\* ein: EINType = Field(...): required, a str matching the pattern.
EinFieldOk(d) ==
    /\ "ein" \in DOMAIN d
    /\ d.ein # None
    /\ MatchesEIN(d.ein[1])

\* name: str = Field(...): required, a str (any str, the empty one included).
NameFieldOk(d) ==
    /\ "name" \in DOMAIN d
    /\ d.name # None

\* email: EmailStr = Field(...): required, a valid address.
EmailFieldOk(d) ==
    /\ "email" \in DOMAIN d
    /\ d.email # None
    /\ IsEmail(d.email[1])

BusinessBaseOk(d) == EinFieldOk(d) /\ NameFieldOk(d) /\ EmailFieldOk(d)

\* The four validated fields of a BusinessBase built from the dict d;
\* phone: Optional[str] = Field(None).
BusinessBaseFields(d) ==
    [ein   |-> d.ein,
     name  |-> d.name,
     email |-> Some(NormalizeEmail(d.email[1])),
     phone |-> DictGet(d, "phone", None)]

\* BusinessBase(**d), BusinessCreate(**d)
BusinessBase(d) ==
    IF BusinessBaseOk(d) THEN Success(BusinessBaseFields(d)) ELSE Failure

BusinessCreate(d) == BusinessBase(d)

\* Variant: the object is built without validation (model_construct).
BusinessReadUnchecked(d, t) ==
    Success(DictUpdate([phone |-> None],
                       DictUpdate(d, [created_at |-> DictGet(d, "created_at", t),
                                      updated_at |-> DictGet(d, "updated_at", t)])))

\* BusinessRead(**d) at time t: the BusinessBase fields, plus created_at and
\* updated_at, each taken from d when present and from utcnow() otherwise.
BusinessRead(d, t) ==
    IF BusinessBaseOk(d)
    THEN Success(DictUpdate(BusinessBaseFields(d),
                            [created_at |-> DictGet(d, "created_at", t),
                             updated_at |-> DictGet(d, "updated_at", t)]))
    ELSE Failure

BusinessUpdateFieldNames == {"ein", "name", "email", "phone"}

\* BusinessUpdate(**d): every field Optional with default None; a supplied
\* ein or email that is not None is validated.  The object keeps the set of
\* fields that were supplied (model_fields_set).
BusinessUpdateOk(d) ==
    /\ ("ein" \in DOMAIN d /\ d.ein # None) => MatchesEIN(d.ein[1])
    /\ ("email" \in DOMAIN d /\ d.email # None) => IsEmail(d.email[1])

BusinessUpdate(d) ==
    IF BusinessUpdateOk(d)
    THEN Success([fields |->
                     [ein   |-> DictGet(d, "ein", None),
                      name  |-> DictGet(d, "name", None),
                      email |-> IF "email" \in DOMAIN d /\ d.email # None
                                THEN Some(NormalizeEmail(d.email[1]))
                                ELSE None,
                      phone |-> DictGet(d, "phone", None)],
                  set |-> (DOMAIN d) \cap BusinessUpdateFieldNames])
    ELSE Failure

\* Variant: model_dump(exclude_none=True) in place of exclude_unset=True.
BusinessUpdateDumpExcludeNone(update) ==
    [k \in {f \in BusinessUpdateFieldNames : update.fields[f] # None} |->
        update.fields[k]]

\* update.model_dump(exclude_unset=True)
BusinessUpdateDump(update) == [k \in update.set |-> update.fields[k]]

\* product_id: int = Field(...): required, not None.
ProductIdFieldOk(d) ==
    /\ "product_id" \in DOMAIN d
    /\ d.product_id # None

\* business: BusinessBase = Field(...): required, itself a valid BusinessBase.
BusinessFieldOk(d) ==
    /\ "business" \in DOMAIN d
    /\ d.business # None
    /\ BusinessBaseOk(d.business[1])

ProductBaseOk(d) == ProductIdFieldOk(d) /\ NameFieldOk(d) /\ BusinessFieldOk(d)

ProductBaseFields(d) ==
    [product_id |-> d.product_id,
     name       |-> d.name,
     business   |-> Some(BusinessBaseFields(d.business[1]))]

\* ProductCreate(**d)
ProductCreate(d) ==
    IF ProductBaseOk(d) THEN Success(ProductBaseFields(d)) ELSE Failure

\* ProductRead(**d) at time t
ProductRead(d, t) ==
    IF ProductBaseOk(d)
    THEN Success(DictUpdate(ProductBaseFields(d),
                            [created_at |-> DictGet(d, "created_at", t),
                             updated_at |-> DictGet(d, "updated_at", t)]))
    ELSE Failure

ProductUpdateFieldNames == {"product_id", "name", "business"}

\* ProductUpdate(**d): every field Optional with default None; a supplied
\* business that is not None must be a valid BusinessBase.  The object and
\* the nested business each keep the set of fields that were supplied.
ProductUpdateOk(d) ==
    ("business" \in DOMAIN d /\ d.business # None) => BusinessBaseOk(d.business[1])

ProductUpdate(d) ==
    IF ProductUpdateOk(d)
    THEN Success([fields |->
                     [product_id |-> DictGet(d, "product_id", None),
                      name       |-> DictGet(d, "name", None),
                      business   |->
                          IF "business" \in DOMAIN d /\ d.business # None
                          THEN Some([fields |-> BusinessBaseFields(d.business[1]),
                                     set |-> (DOMAIN d.business[1])
                                                 \cap BusinessUpdateFieldNames])
                          ELSE None],
                  set |-> (DOMAIN d) \cap ProductUpdateFieldNames])
    ELSE Failure

\* update.model_dump(exclude_unset=True): unset fields are left out at both
\* levels, of the update and of its nested business.
ProductUpdateDump(update) ==
    [k \in update.set |->
        IF k = "business" /\ update.fields.business # None
        THEN Some(BusinessUpdateDump(update.fields.business[1]))
        ELSE update.fields[k]]

-----------------------------------------------------------------------------
(* Responses *)

Response(op, key, status, body) ==
    [op |-> op, key |-> key, status |-> status, body |-> body]

\* FastAPI rejects a body that does not parse into the handler's model.
RequestValidationError(op, key) ==
    /\ resp' = Response(op, key, 422, None)
    /\ UNCHANGED <<businesses, products>>

-----------------------------------------------------------------------------
(* Business handlers *)

\* Variant: no presence check, an existing record is overwritten.
create_business_overwrite(business) ==
    LET read == BusinessRead(business, now)
    IN /\ businesses' = Assign(businesses, business.ein[1], read.value)
       /\ resp' = Response("create_business", business.ein, 201, Some(read.value))
       /\ UNCHANGED products

create_business(business) ==
    IF Has(businesses, business.ein[1])
    THEN /\ resp' = Response("create_business", business.ein, 400, None)
         /\ UNCHANGED <<businesses, products>>
    ELSE LET read == BusinessRead(business, now)
         IN IF read.ok
            THEN /\ businesses' = Assign(businesses, business.ein[1], read.value)
                 /\ resp' = Response("create_business", business.ein, 201,
                                     Some(read.value))
                 /\ UNCHANGED products
            ELSE /\ resp' = Response("create_business", business.ein, 500, None)
                 /\ UNCHANGED <<businesses, products>>

\* Variant: the presence check is on the key, the read takes the first record.
get_business_first(business_ein) ==
    /\ resp' = IF ~Has(businesses, business_ein)
               THEN Response("get_business", Some(business_ein), 404, None)
               ELSE Response("get_business", Some(business_ein), 200,
                             Some(businesses[1].val))
    /\ UNCHANGED <<businesses, products>>

get_business(business_ein) ==
    /\ resp' = IF ~Has(businesses, business_ein)
               THEN Response("get_business", Some(business_ein), 404, None)
               ELSE Response("get_business", Some(business_ein), 200,
                             Some(Lookup(businesses, business_ein)))
    /\ UNCHANGED <<businesses, products>>

\* Variant: the merged record is stored under its own ein.
update_business_rekey(business_ein, update) ==
    IF ~Has(businesses, business_ein)
    THEN /\ resp' = Response("update_business", Some(business_ein), 404, None)
         /\ UNCHANGED <<businesses, products>>
    ELSE LET stored == DictUpdate(Lookup(businesses, business_ein),
                                  BusinessUpdateDump(update))
             read == BusinessRead(stored, now)
         IN IF read.ok
            THEN /\ businesses' = Assign(Del(businesses, business_ein),
                                         read.value.ein[1], read.value)
                 /\ resp' = Response("update_business", Some(business_ein),
                                     200, Some(read.value))
                 /\ UNCHANGED products
            ELSE /\ resp' = Response("update_business", Some(business_ein),
                                     500, None)
                 /\ UNCHANGED <<businesses, products>>

update_business(business_ein, update) ==
    IF ~Has(businesses, business_ein)
    THEN /\ resp' = Response("update_business", Some(business_ein), 404, None)
         /\ UNCHANGED <<businesses, products>>
    ELSE LET stored == DictUpdate(Lookup(businesses, business_ein),
                                  BusinessUpdateDump(update))
             read == BusinessRead(stored, now)
         IN IF read.ok
            THEN /\ businesses' = Assign(businesses, business_ein, read.value)
                 /\ resp' = Response("update_business", Some(business_ein), 200,
                                     Some(read.value))
                 /\ UNCHANGED products
            ELSE /\ resp' = Response("update_business", Some(business_ein), 500,
                                     None)
                 /\ UNCHANGED <<businesses, products>>

\* Variant: deleting a business also deletes the products that embed it.
delete_business_cascade(ein) ==
    IF ~Has(businesses, ein)
    THEN /\ resp' = Response("delete_business", Some(ein), 404, None)
         /\ UNCHANGED <<businesses, products>>
    ELSE /\ businesses' = Del(businesses, ein)
         /\ products' = SelectSeq(products,
                                  LAMBDA e : e.val.business[1].ein # Some(ein))
         /\ resp' = Response("delete_business", Some(ein), 204, None)

\* Variant: the record is not removed.
delete_business_keep(ein) ==
    IF ~Has(businesses, ein)
    THEN /\ resp' = Response("delete_business", Some(ein), 404, None)
         /\ UNCHANGED <<businesses, products>>
    ELSE /\ resp' = Response("delete_business", Some(ein), 204, None)
         /\ UNCHANGED <<businesses, products>>

\* Variant: deleting an absent key succeeds silently.
delete_business_idempotent(ein) ==
    /\ businesses' = Del(businesses, ein)
    /\ resp' = Response("delete_business", Some(ein), 204, None)
    /\ UNCHANGED products

delete_business(ein) ==
    IF ~Has(businesses, ein)
    THEN /\ resp' = Response("delete_business", Some(ein), 404, None)
         /\ UNCHANGED <<businesses, products>>
    ELSE /\ businesses' = Del(businesses, ein)
         /\ resp' = Response("delete_business", Some(ein), 204, None)
         /\ UNCHANGED products

\* Variant: the phone filter is applied to the unfiltered list.
BusinessResultsPhoneFromAll(store, ein, name, email, phone) ==
    LET r0 == Values(store)
        r1 == IF ein # None THEN SelectSeq(r0, LAMBDA b : b.ein = ein) ELSE r0
        r2 == IF name # None THEN SelectSeq(r1, LAMBDA b : b.name = name) ELSE r1
        r3 == IF email # None THEN SelectSeq(r2, LAMBDA b : b.email = email) ELSE r2
        r4 == IF phone # None THEN SelectSeq(r0, LAMBDA b : b.phone = phone) ELSE r3
    IN r4

\* The result list of list_businesses: the filters applied one after another.
BusinessResults(store, ein, name, email, phone) ==
    LET r0 == Values(store)
        r1 == IF ein # None THEN SelectSeq(r0, LAMBDA b : b.ein = ein) ELSE r0
        r2 == IF name # None THEN SelectSeq(r1, LAMBDA b : b.name = name) ELSE r1
        r3 == IF email # None THEN SelectSeq(r2, LAMBDA b : b.email = email) ELSE r2
        r4 == IF phone # None THEN SelectSeq(r3, LAMBDA b : b.phone = phone) ELSE r3
    IN r4

list_businesses(ein, name, email, phone) ==
    /\ resp' = Response("list_businesses", None, 200,
                        BusinessResults(businesses, ein, name, email, phone))
    /\ UNCHANGED <<businesses, products>>

-----------------------------------------------------------------------------
(* Product handlers *)

\* Variant: the embedded business must exist in the Business Store.
create_product_checked(product) ==
    IF product.business[1].ein[1] \notin Keys(businesses)
    THEN /\ resp' = Response("create_product", product.product_id, 404, None)
         /\ UNCHANGED <<businesses, products>>
    ELSE IF Has(products, product.product_id[1])
    THEN /\ resp' = Response("create_product", product.product_id, 400, None)
         /\ UNCHANGED <<businesses, products>>
    ELSE LET product_read == ProductRead(product, now)
         IN /\ products' = Assign(products, product_read.value.product_id[1],
                                  product_read.value)
            /\ resp' = Response("create_product", product.product_id, 201,
                                Some(product_read.value))
            /\ UNCHANGED businesses

create_product(product) ==
    IF Has(products, product.product_id[1])
    THEN /\ resp' = Response("create_product", product.product_id, 400, None)
         /\ UNCHANGED <<businesses, products>>
    ELSE LET product_read == ProductRead(product, now)
         IN IF product_read.ok
            THEN /\ products' = Assign(products,
                                       product_read.value.product_id[1],
                                       product_read.value)
                 /\ resp' = Response("create_product", product.product_id, 201,
                                     Some(product_read.value))
                 /\ UNCHANGED businesses
            ELSE /\ resp' = Response("create_product", product.product_id, 500,
                                     None)
                 /\ UNCHANGED <<businesses, products>>

get_product(product_id) ==
    /\ resp' = IF ~Has(products, product_id)
               THEN Response("get_product", Some(product_id), 404, None)
               ELSE Response("get_product", Some(product_id), 200,
                             Some(Lookup(products, product_id)))
    /\ UNCHANGED <<businesses, products>>

update_product(product_id, update) ==
    IF ~Has(products, product_id)
    THEN /\ resp' = Response("update_product", Some(product_id), 404, None)
         /\ UNCHANGED <<businesses, products>>
    ELSE LET stored == DictUpdate(Lookup(products, product_id),
                                  ProductUpdateDump(update))
             read == ProductRead(stored, now)
         IN IF read.ok
            THEN /\ products' = Assign(products, product_id, read.value)
                 /\ resp' = Response("update_product", Some(product_id), 200,
                                     Some(read.value))
                 /\ UNCHANGED businesses
            ELSE /\ resp' = Response("update_product", Some(product_id), 500,
                                     None)
                 /\ UNCHANGED <<businesses, products>>

delete_product(product_id) ==
    IF ~Has(products, product_id)
    THEN /\ resp' = Response("delete_product", Some(product_id), 404, None)
         /\ UNCHANGED <<businesses, products>>
    ELSE /\ products' = Del(products, product_id)
         /\ resp' = Response("delete_product", Some(product_id), 204, None)
         /\ UNCHANGED businesses

\* The result list of list_products: the filters applied one after another.
ProductResults(store, product_id, name, business_ein, business_name) ==
    LET r0 == Values(store)
        r1 == IF product_id # None
              THEN SelectSeq(r0, LAMBDA p : p.product_id = product_id) ELSE r0
        r2 == IF name # None
              THEN SelectSeq(r1, LAMBDA p : p.name = name) ELSE r1
        r3 == IF business_ein # None
              THEN SelectSeq(r2, LAMBDA p : p.business[1].ein = business_ein)
              ELSE r2
        r4 == IF business_name # None
              THEN SelectSeq(r3, LAMBDA p : p.business[1].name = business_name)
              ELSE r3
    IN r4

list_products(product_id, name, business_ein, business_name) ==
    /\ resp' = Response("list_products", None, 200,
                        ProductResults(products, product_id, name,
                                       business_ein, business_name))
    /\ UNCHANGED <<businesses, products>>

-----------------------------------------------------------------------------
(* Request inputs *)

EIN1 == <<"1", "2", "-", "3", "4", "5", "6", "7", "8", "9">>

EIN2 == <<"9", "8", "-", "7", "6", "5", "4", "3", "2", "1">>

\* no hyphen
BadEIN == <<"1", "2", "3", "4", "5", "6", "7", "8", "9">>

MailA == <<"a", "@", "x", ".", "i", "o">>

\* the same address with the domain in capitals
MailAUpper == <<"a", "@", "X", ".", "I", "O">>

MailB == <<"b", "@", "x", ".", "i", "o">>

\* no "@"
BadMail == <<"a", "x", ".", "i", "o">>

PathEINs == {EIN1, EIN2}

RawBusinessCreates ==
    { [ein |-> Some(EIN1), name |-> Some("Cupcakes"), email |-> Some(MailA),
       phone |-> Some("+1")],
      [ein |-> Some(EIN2), name |-> Some("Bakery"), email |-> Some(MailB)],
      [ein |-> Some(EIN1), name |-> Some("Bakery"), email |-> Some(MailAUpper),
       phone |-> None],
      [ein |-> Some(BadEIN), name |-> Some("Cupcakes"), email |-> Some(MailA)],
      [ein |-> Some(EIN2), email |-> Some(MailA)],
      [ein |-> Some(EIN2), name |-> Some("Cupcakes"), email |-> Some(BadMail)],
      [ein |-> Some(EIN2), name |-> Some(""), email |-> Some(MailB)] }

RawBusinessUpdates ==
    { EmptyDict,
      [name |-> Some("Bakery")],
      [name |-> Some("")],
      [name |-> None],
      [phone |-> None],
      [phone |-> Some("+2")],
      [email |-> Some(MailB)],
      [email |-> Some(MailAUpper)],
      [email |-> Some(BadMail)],
      [email |-> None],
      [ein |-> Some(EIN1)],
      [ein |-> Some(EIN2)],
      [ein |-> Some(BadEIN)],
      [ein |-> None],
      [name |-> Some("Cupcakes"), phone |-> Some("+1")] }

EinFilters == {None, Some(EIN1), Some(EIN2)}

NameFilters == {None, Some("Bakery")}

EmailFilters == {None, Some(MailA)}

PhoneFilters == {None, Some("+1")}

PathProductIds == {0, 1}

RawBusinessA ==
    [ein |-> Some(EIN1), name |-> Some("Cupcakes"), email |-> Some(MailA),
     phone |-> Some("+1")]

\* no phone key
RawBusinessB == [ein |-> Some(EIN2), name |-> Some("Bakery"), email |-> Some(MailB)]

RawProductCreates ==
    { [product_id |-> Some(0), name |-> Some("Vanilla"), business |-> Some(RawBusinessA)],
      [product_id |-> Some(1), name |-> Some("Chocolate"), business |-> Some(RawBusinessB)],
      [product_id |-> Some(0), name |-> Some("Chocolate"),
       business |-> Some([ein |-> Some(EIN1), name |-> Some("Bakery"),
                          email |-> Some(MailAUpper)])],
      [product_id |-> Some(1), name |-> Some("Vanilla"),
       business |-> Some([ein |-> Some(BadEIN), name |-> Some("Cupcakes"),
                          email |-> Some(MailA)])],
      [product_id |-> Some(1), name |-> Some("Vanilla")],
      [product_id |-> Some(1), name |-> Some(""), business |-> Some(RawBusinessB)] }

RawProductUpdates ==
    { EmptyDict,
      [name |-> Some("Chocolate")],
      [name |-> Some("")],
      [name |-> None],
      [product_id |-> Some(0)],
      [product_id |-> Some(1)],
      [product_id |-> None],
      [business |-> Some(RawBusinessA)],
      [business |-> Some(RawBusinessB)],
      [business |-> None],
      [business |-> Some([ein |-> Some(EIN1), name |-> Some("Cupcakes"),
                          email |-> Some(BadMail)])],
      [business |-> Some([ein |-> Some(EIN1), email |-> Some(MailA)])],
      [name |-> Some("Vanilla"), business |-> Some(RawBusinessB)] }

ProductIdFilters == {None, Some(0), Some(1)}

ProductNameFilters == {None, Some("Vanilla")}

BusinessEinFilters == {None, Some(EIN1)}

BusinessNameFilters == {None, Some("Bakery")}

-----------------------------------------------------------------------------
(* Routes: one request each; the body is parsed before the handler runs *)

Tick == now < MaxClock /\ now' = now + 1

\* History: a successful delete adds its key, a successful create removes it.
RecordDeleted ==
    deleted' =
       [businesses |->
           IF resp'.op = "delete_business" /\ resp'.status = 204
           THEN deleted.businesses \cup {resp'.key[1]}
           ELSE IF resp'.op = "create_business" /\ resp'.status = 201
           THEN deleted.businesses \ {resp'.key[1]}
           ELSE deleted.businesses,
        products |->
           IF resp'.op = "delete_product" /\ resp'.status = 204
           THEN deleted.products \cup {resp'.key[1]}
           ELSE IF resp'.op = "create_product" /\ resp'.status = 201
           THEN deleted.products \ {resp'.key[1]}
           ELSE deleted.products]

PostBusinesses ==
    /\ Tick
    /\ \E raw \in RawBusinessCreates :
          LET business == BusinessCreate(raw)
          IN IF business.ok
             THEN create_business(business.value)
             ELSE RequestValidationError("create_business", None)
    /\ RecordDeleted
    /\ UNCHANGED threads

GetBusinesses ==
    /\ Tick
    /\ \E ein \in EinFilters, name \in NameFilters,
          email \in EmailFilters, phone \in PhoneFilters :
          list_businesses(ein, name, email, phone)
    /\ RecordDeleted
    /\ UNCHANGED threads

GetBusiness ==
    /\ Tick
    /\ \E business_ein \in PathEINs : get_business(business_ein)
    /\ RecordDeleted
    /\ UNCHANGED threads

PatchBusiness ==
    /\ Tick
    /\ \E business_ein \in PathEINs, raw \in RawBusinessUpdates :
          LET update == BusinessUpdate(raw)
          IN IF update.ok
             THEN update_business(business_ein, update.value)
             ELSE RequestValidationError("update_business", Some(business_ein))
    /\ RecordDeleted
    /\ UNCHANGED threads

DeleteBusiness ==
    /\ Tick
    /\ \E ein \in PathEINs : delete_business(ein)
    /\ RecordDeleted
    /\ UNCHANGED threads

PostProducts ==
    /\ Tick
    /\ \E raw \in RawProductCreates :
          LET product == ProductCreate(raw)
          IN IF product.ok
             THEN create_product(product.value)
             ELSE RequestValidationError("create_product", None)
    /\ RecordDeleted
    /\ UNCHANGED threads

GetProducts ==
    /\ Tick
    /\ \E product_id \in ProductIdFilters, name \in ProductNameFilters,
          business_ein \in BusinessEinFilters,
          business_name \in BusinessNameFilters :
          list_products(product_id, name, business_ein, business_name)
    /\ RecordDeleted
    /\ UNCHANGED threads

GetProduct ==
    /\ Tick
    /\ \E product_id \in PathProductIds : get_product(product_id)
    /\ RecordDeleted
    /\ UNCHANGED threads

PatchProduct ==
    /\ Tick
    /\ \E product_id \in PathProductIds, raw \in RawProductUpdates :
          LET update == ProductUpdate(raw)
          IN IF update.ok
             THEN update_product(product_id, update.value)
             ELSE RequestValidationError("update_product", Some(product_id))
    /\ RecordDeleted
    /\ UNCHANGED threads

DeleteProduct ==
    /\ Tick
    /\ \E product_id \in PathProductIds : delete_product(product_id)
    /\ RecordDeleted
    /\ UNCHANGED threads

-----------------------------------------------------------------------------

Init ==
    /\ businesses = <<>>
    /\ products = <<>>
    /\ now = 0
    /\ resp = Response("init", None, 0, None)
    /\ deleted = [businesses |-> {}, products |-> {}]
    /\ threads = <<>>

Next ==
    \/ PostBusinesses
    \/ GetBusinesses
    \/ GetBusiness
    \/ PatchBusiness
    \/ DeleteBusiness
    \/ PostProducts
    \/ GetProducts
    \/ GetProduct
    \/ PatchProduct
    \/ DeleteProduct

Spec == Init /\ [][Next]_vars

-----------------------------------------------------------------------------
(* Interleaved handlers.  FastAPI runs a `def` handler in a worker thread,   *)
(* so two requests can be in their handlers at once.  A step is one access  *)
(* to `businesses` (a membership test, a read, an assignment, a del), with  *)
(* the local computation that follows it; businesses[k] on an absent key    *)
(* raises KeyError, which is answered 500.                                  *)

Threads == {1, 2}

\* A request that has reached its handler: op and key, the parsed payload,
\* the handler's position, its local `stored`, and the response once sent.
Request(op, key, payload) ==
    [op |-> op, key |-> key, payload |-> payload, pc |-> "check",
     stored |-> EmptyDict, status |-> 0, body |-> None]

ConcRequests ==
    { Request("create_business", EIN1, BusinessCreate(RawBusinessA).value),
      Request("create_business", EIN1,
              BusinessCreate([ein |-> Some(EIN1), name |-> Some("Bakery"),
                              email |-> Some(MailAUpper), phone |-> None]).value),
      Request("update_business", EIN1,
              BusinessUpdate([name |-> Some("Bakery")]).value),
      Request("update_business", EIN1,
              BusinessUpdate([phone |-> Some("+2")]).value),
      Request("delete_business", EIN1, EmptyDict),
      Request("get_business", EIN1, EmptyDict) }

At_pc(t, op, pc) == threads[t].op = op /\ threads[t].pc = pc

Goto(t, pc) == threads' = [threads EXCEPT ![t].pc = pc]

\* The response is sent and the handler is over.
Respond(t, status, body) ==
    threads' = [threads EXCEPT ![t].pc = "done", ![t].status = status,
                               ![t].body = body]

Others == now' = now + 1 /\ UNCHANGED <<products, resp, deleted>>

\* if business.ein in businesses: raise HTTPException(400)
create_business_check(t) ==
    /\ At_pc(t, "create_business", "check")
    /\ IF Has(businesses, threads[t].key)
       THEN Respond(t, 400, None)
       ELSE Goto(t, "write")
    /\ UNCHANGED businesses
    /\ Others

\* businesses[business.ein] = BusinessRead(**business.model_dump())
create_business_write(t) ==
    /\ At_pc(t, "create_business", "write")
    /\ businesses' = Assign(businesses, threads[t].key,
                            BusinessRead(threads[t].payload, now).value)
    /\ Goto(t, "return")
    /\ Others

\* return businesses[business.ein]
create_business_return(t) ==
    /\ At_pc(t, "create_business", "return")
    /\ IF Has(businesses, threads[t].key)
       THEN Respond(t, 201, Some(Lookup(businesses, threads[t].key)))
       ELSE Respond(t, 500, None)
    /\ UNCHANGED businesses
    /\ Others

\* if business_ein not in businesses: raise HTTPException(404)
get_business_check(t) ==
    /\ At_pc(t, "get_business", "check")
    /\ IF Has(businesses, threads[t].key)
       THEN Goto(t, "return")
       ELSE Respond(t, 404, None)
    /\ UNCHANGED businesses
    /\ Others

\* return businesses[business_ein]
get_business_return(t) ==
    /\ At_pc(t, "get_business", "return")
    /\ IF Has(businesses, threads[t].key)
       THEN Respond(t, 200, Some(Lookup(businesses, threads[t].key)))
       ELSE Respond(t, 500, None)
    /\ UNCHANGED businesses
    /\ Others

\* if business_ein not in businesses: raise HTTPException(404)
update_business_check(t) ==
    /\ At_pc(t, "update_business", "check")
    /\ IF Has(businesses, threads[t].key)
       THEN Goto(t, "read")
       ELSE Respond(t, 404, None)
    /\ UNCHANGED businesses
    /\ Others

\* stored = businesses[business_ein].model_dump()
update_business_read(t) ==
    /\ At_pc(t, "update_business", "read")
    /\ IF Has(businesses, threads[t].key)
       THEN threads' = [threads EXCEPT
                           ![t].pc = "write",
                           ![t].stored = Lookup(businesses, threads[t].key)]
       ELSE Respond(t, 500, None)
    /\ UNCHANGED businesses
    /\ Others

\* stored.update(update.model_dump(exclude_unset=True))
\* businesses[business_ein] = BusinessRead(**stored)
update_business_write(t) ==
    /\ At_pc(t, "update_business", "write")
    /\ LET stored == DictUpdate(threads[t].stored,
                                BusinessUpdateDump(threads[t].payload))
           read == BusinessRead(stored, now)
       IN IF read.ok
          THEN /\ businesses' = Assign(businesses, threads[t].key, read.value)
               /\ Goto(t, "return")
          ELSE /\ Respond(t, 500, None)
               /\ UNCHANGED businesses
    /\ Others

\* return businesses[business_ein]
update_business_return(t) ==
    /\ At_pc(t, "update_business", "return")
    /\ IF Has(businesses, threads[t].key)
       THEN Respond(t, 200, Some(Lookup(businesses, threads[t].key)))
       ELSE Respond(t, 500, None)
    /\ UNCHANGED businesses
    /\ Others

\* if ein not in businesses: raise HTTPException(404)
delete_business_check(t) ==
    /\ At_pc(t, "delete_business", "check")
    /\ IF Has(businesses, threads[t].key)
       THEN Goto(t, "del")
       ELSE Respond(t, 404, None)
    /\ UNCHANGED businesses
    /\ Others

\* del businesses[ein]; return None
delete_business_del(t) ==
    /\ At_pc(t, "delete_business", "del")
    /\ IF Has(businesses, threads[t].key)
       THEN /\ businesses' = Del(businesses, threads[t].key)
            /\ Respond(t, 204, None)
       ELSE /\ Respond(t, 500, None)
            /\ UNCHANGED businesses
    /\ Others

\* The business created at time 0 from RawBusinessA.
StoredA == BusinessRead(BusinessCreate(RawBusinessA).value, 0).value

\* Two requests arrive together, at the start or right after the first
\* business was created.
ConcInit ==
    /\ \/ /\ businesses = <<>>
          /\ now = 0
          /\ resp = Response("init", None, 0, None)
       \/ /\ businesses = <<[key |-> EIN1, val |-> StoredA]>>
          /\ now = 1
          /\ resp = Response("create_business", Some(EIN1), 201, Some(StoredA))
    /\ products = <<>>
    /\ deleted = [businesses |-> {}, products |-> {}]
    /\ threads \in [Threads -> ConcRequests]

ConcNext ==
    \E t \in Threads :
       \/ create_business_check(t)
       \/ create_business_write(t)
       \/ create_business_return(t)
       \/ get_business_check(t)
       \/ get_business_return(t)
       \/ update_business_check(t)
       \/ update_business_read(t)
       \/ update_business_write(t)
       \/ update_business_return(t)
       \/ delete_business_check(t)
       \/ delete_business_del(t)

ConcSpec == ConcInit /\ [][ConcNext]_vars

-----------------------------------------------------------------------------
(* Properties *)

BusinessOps ==
    {"create_business", "list_businesses", "get_business", "update_business",
     "delete_business"}

ProductOps ==
    {"create_product", "list_products", "get_product", "update_product",
     "delete_product"}

Range(seq) == {seq[i] : i \in 1..Len(seq)}

\* The record stored under key k.
At(d, k) == d[CHOOSE i \in 1..Len(d) : d[i].key = k].val

StoresUnchanged == businesses' = businesses /\ products' = products

C2_KeyFieldsUnique ==
    /\ \A i, j \in 1..Len(businesses) :
          i # j => businesses[i].val.ein # businesses[j].val.ein
    /\ \A i, j \in 1..Len(products) :
          i # j => products[i].val.product_id # products[j].val.product_id

\* C3: after a successful update, each settable field absent from the
\* payload is as it was in the stored record and each field present has the
\* payload's value, an explicit null included.
C3_UpdateFrame ==
    [][ /\ \A k \in PathEINs, raw \in RawBusinessUpdates :
              LET u == BusinessUpdate(raw)
              IN (/\ resp'.op = "update_business"
                  /\ resp'.status = 200
                  /\ resp'.key = Some(k)
                  /\ u.ok
                  /\ k \in Keys(businesses)
                  /\ update_business(k, u.value))
                 => \A f \in {"ein", "name", "email", "phone"} :
                       At(businesses', k)[f] =
                          IF f \in DOMAIN raw
                          THEN u.value.fields[f]
                          ELSE At(businesses, k)[f]
        /\ \A k \in PathProductIds, raw \in RawProductUpdates :
              LET u == ProductUpdate(raw)
              IN (/\ resp'.op = "update_product"
                  /\ resp'.status = 200
                  /\ resp'.key = Some(k)
                  /\ u.ok
                  /\ k \in Keys(products)
                  /\ update_product(k, u.value))
                 => /\ \A f \in {"product_id", "name"} :
                          At(products', k)[f] =
                             IF f \in DOMAIN raw
                             THEN u.value.fields[f]
                             ELSE At(products, k)[f]
                    /\ At(products', k).business =
                          IF "business" \in DOMAIN raw
                          THEN Some(u.value.fields.business[1].fields)
                          ELSE At(products, k).business ]_vars

\* An explicit null phone has cleared a phone that was set.
C3_Witness ==
    /\ resp.op = "update_business"
    /\ resp.status = 200
    /\ resp.body[1].phone = None
    /\ resp.body[1].name = Some("Cupcakes")
    /\ resp.body[1].email = Some(MailA)

WellFormedBusiness(b) ==
    /\ b.ein # None
    /\ MatchesEIN(b.ein[1])
    /\ b.email # None
    /\ IsEmail(b.email[1])
    /\ b.name # None

C4_StoredWellFormed ==
    /\ \A i \in 1..Len(businesses) : WellFormedBusiness(businesses[i].val)
    /\ \A i \in 1..Len(products) :
          /\ products[i].val.business # None
          /\ WellFormedBusiness(products[i].val.business[1])

C4_InvalidMergeRejected ==
    /\ \A k \in PathEINs, raw \in RawBusinessUpdates :
          LET u == BusinessUpdate(raw)
              merged == DictUpdate(At(businesses, k),
                                   [f \in DOMAIN raw |-> u.value.fields[f]])
          IN (/\ resp'.op = "update_business"
              /\ resp'.key = Some(k)
              /\ u.ok
              /\ k \in Keys(businesses)
              /\ ~WellFormedBusiness(merged)
              /\ update_business(k, u.value))
             => (resp'.status \notin {200, 201, 204} /\ StoresUnchanged)
    /\ \A k \in PathProductIds, raw \in RawProductUpdates :
          LET u == ProductUpdate(raw)
              merged == DictUpdate(At(products, k),
                                   [f \in DOMAIN raw |-> u.value.fields[f]])
          IN (/\ resp'.op = "update_product"
              /\ resp'.key = Some(k)
              /\ u.ok
              /\ k \in Keys(products)
              /\ merged.business = None
              /\ update_product(k, u.value))
             => (resp'.status \notin {200, 201, 204} /\ StoresUnchanged)

\* C4: every stored Business and every business embedded in a stored Product
\* has an ein of the form DD-DDDDDDD, a valid email and a name that is not
\* None; an update whose merged record would not is rejected and changes
\* nothing.
C4_ValidatedStores == []C4_StoredWellFormed /\ [][C4_InvalidMergeRejected]_vars

\* An update that would null the name of a stored business was rejected.
C4_Witness ==
    /\ resp.op = "update_business"
    /\ resp.status = 500
    /\ resp.key[1] \in Keys(businesses)

\* C5: a Business Store operation leaves the Product Store as it was.
C5_BusinessOpsKeepProducts ==
    [][resp'.op \in BusinessOps => products' = products]_vars

\* A business was renamed or deleted while a product embeds a business with
\* its EIN, and the product still carries the old embedded name.
C5_Witness ==
    /\ resp.op \in {"update_business", "delete_business"}
    /\ resp.status \in {200, 204}
    /\ \E i \in 1..Len(products) :
          /\ products[i].val.business[1].ein = resp.key
          /\ products[i].val.business[1].name = Some("Cupcakes")
    /\ \A i \in 1..Len(businesses) :
          businesses[i].key = resp.key[1]
             => businesses[i].val.name = Some("Bakery")

MatchesBusiness(b, ein, name, email, phone) ==
    /\ ein = None \/ b.ein = ein
    /\ name = None \/ b.name = name
    /\ email = None \/ b.email = email
    /\ phone = None \/ b.phone = phone

MatchesProduct(p, product_id, name, business_ein, business_name) ==
    /\ product_id = None \/ p.product_id = product_id
    /\ name = None \/ p.name = name
    /\ business_ein = None \/ p.business[1].ein = business_ein
    /\ business_name = None \/ p.business[1].name = business_name

C6_ListReturnsMatches ==
    /\ \A ein \in EinFilters, name \in NameFilters,
          email \in EmailFilters, phone \in PhoneFilters :
          (resp'.op = "list_businesses" /\ list_businesses(ein, name, email, phone))
             => resp'.body =
                   SelectSeq(Values(businesses),
                             LAMBDA b : MatchesBusiness(b, ein, name, email, phone))
    /\ \A product_id \in ProductIdFilters, name \in ProductNameFilters,
          business_ein \in BusinessEinFilters,
          business_name \in BusinessNameFilters :
          (/\ resp'.op = "list_products"
           /\ list_products(product_id, name, business_ein, business_name))
             => resp'.body =
                   SelectSeq(Values(products),
                             LAMBDA p : MatchesProduct(p, product_id, name,
                                                       business_ein, business_name))

C6_FiltersIntersect ==
    /\ \A ein \in EinFilters, name \in NameFilters,
          email \in EmailFilters, phone \in PhoneFilters :
          Range(BusinessResults(businesses, ein, name, email, phone)) =
             Range(BusinessResults(businesses, ein, None, None, None))
                \cap Range(BusinessResults(businesses, None, name, None, None))
                \cap Range(BusinessResults(businesses, None, None, email, None))
                \cap Range(BusinessResults(businesses, None, None, None, phone))
    /\ \A product_id \in ProductIdFilters, name \in ProductNameFilters,
          business_ein \in BusinessEinFilters,
          business_name \in BusinessNameFilters :
          Range(ProductResults(products, product_id, name, business_ein,
                               business_name)) =
             Range(ProductResults(products, product_id, None, None, None))
                \cap Range(ProductResults(products, None, name, None, None))
                \cap Range(ProductResults(products, None, None, business_ein, None))
                \cap Range(ProductResults(products, None, None, None, business_name))

\* C6: List returns exactly the stored records that equal every supplied
\* filter on the corresponding field (none supplied: all records), and so
\* the result under several filters is the intersection of the results under
\* each alone.
C6_ListFilters == []C6_FiltersIntersect /\ [][C6_ListReturnsMatches]_vars

\* A list that kept one of two stored businesses.
C6_Witness ==
    /\ resp.op = "list_businesses"
    /\ Len(businesses) = 2
    /\ Len(resp.body) = 1

\* C7: Get, Update and Delete that reach their handler with a key absent
\* from the store answer 404 (NotFound) and leave both stores as they were.
C7_AbsentKeyNotFound ==
    [][ /\ (/\ resp'.op \in {"get_business", "update_business", "delete_business"}
            /\ resp'.status # 422
            /\ resp'.key[1] \notin Keys(businesses))
           => (resp'.status = 404 /\ StoresUnchanged)
        /\ (/\ resp'.op \in {"get_product", "update_product", "delete_product"}
            /\ resp'.status # 422
            /\ resp'.key[1] \notin Keys(products))
           => (resp'.status = 404 /\ StoresUnchanged) ]_vars

\* A delete of an absent key from a non-empty store.
C7_Witness ==
    /\ resp.op = "delete_business"
    /\ resp.status = 404
    /\ Len(businesses) = 1

C8_DeletedAbsent ==
    /\ \A k \in deleted.businesses : k \notin Keys(businesses)
    /\ \A k \in deleted.products : k \notin Keys(products)

C8_DeletedNotFound ==
    /\ (/\ resp'.op \in {"get_business", "update_business", "delete_business"}
        /\ resp'.status # 422
        /\ resp'.key[1] \in deleted.businesses)
       => resp'.status = 404
    /\ (/\ resp'.op \in {"get_product", "update_product", "delete_product"}
        /\ resp'.status # 422
        /\ resp'.key[1] \in deleted.products)
       => resp'.status = 404

C9_CreateReturnsPayload ==
    /\ \A raw \in RawBusinessCreates :
          LET business == BusinessCreate(raw)
          IN (/\ resp'.op = "create_business"
              /\ resp'.status = 201
              /\ business.ok
              /\ create_business(business.value))
             => \A f \in {"ein", "name", "email", "phone"} :
                   resp'.body[1][f] = business.value[f]
    /\ \A raw \in RawProductCreates :
          LET product == ProductCreate(raw)
          IN (/\ resp'.op = "create_product"
              /\ resp'.status = 201
              /\ product.ok
              /\ create_product(product.value))
             => \A f \in {"product_id", "name", "business"} :
                   resp'.body[1][f] = product.value[f]

C9_GetAfterCreate ==
    /\ (/\ resp.op = "create_business"
        /\ resp.status = 201
        /\ resp'.op = "get_business"
        /\ resp'.key = resp.key)
       => (resp'.status = 200 /\ resp'.body = resp.body)
    /\ (/\ resp.op = "create_product"
        /\ resp.status = 201
        /\ resp'.op = "get_product"
        /\ resp'.key = resp.key)
       => (resp'.status = 200 /\ resp'.body = resp.body)

\* C9: a successful Create returns a record whose non-timestamp fields are
\* the payload's, and a Get by that key issued next succeeds and returns the
\* record Create returned, timestamps included.
C9_CreateThenGet == [][C9_CreateReturnsPayload /\ C9_GetAfterCreate]_vars

\* A Get of the second record created, one tick after its creation.
C9_Witness ==
    /\ resp.op = "get_business"
    /\ resp.status = 200
    /\ Len(businesses) = 2
    /\ resp.body[1] = businesses[2].val
    /\ resp.body[1].created_at = now - 2

\* C10: after a successful update whose merged record has a key field that
\* differs from the key addressed, the record is stored under the new key
\* and the old key is absent.
C10_UpdateRekeys ==
    /\ (/\ resp.op = "update_business"
        /\ resp.status = 200
        /\ resp.body[1].ein # resp.key)
       => /\ resp.body[1].ein[1] \in Keys(businesses)
          /\ At(businesses, resp.body[1].ein[1]) = resp.body[1]
          /\ resp.key[1] \notin Keys(businesses)
    /\ (/\ resp.op = "update_product"
        /\ resp.status = 200
        /\ resp.body[1].product_id # resp.key)
       => /\ resp.body[1].product_id[1] \in Keys(products)
          /\ At(products, resp.body[1].product_id[1]) = resp.body[1]
          /\ resp.key[1] \notin Keys(products)

\* C11: no stored Business or Product, and no business embedded in a stored
\* Product, has the empty string as its name.
C11_NamesNonEmpty ==
    /\ \A i \in 1..Len(businesses) : businesses[i].val.name # Some("")
    /\ \A i \in 1..Len(products) :
          /\ products[i].val.name # Some("")
          /\ products[i].val.business[1].name # Some("")

\* C12: a successful update stores and returns a record whose updated_at is
\* the time of that update, and whose created_at is the one the stored
\* record had.  (The handler of the request answered in this state ran at
\* time now - 1.)
C12_UpdateRefreshesUpdatedAt ==
    /\ (resp.op = "update_business" /\ resp.status = 200)
       => /\ resp.body[1].updated_at = now - 1
          /\ At(businesses, resp.key[1]).updated_at = now - 1
    /\ (resp.op = "update_product" /\ resp.status = 200)
       => /\ resp.body[1].updated_at = now - 1
          /\ At(products, resp.key[1]).updated_at = now - 1

\* created_at survives every successful update.
C12_CreatedAtKept ==
    [][ /\ (resp'.op = "update_business" /\ resp'.status = 200)
           => At(businesses', resp'.key[1]).created_at
                 = At(businesses, resp'.key[1]).created_at
        /\ (resp'.op = "update_product" /\ resp'.status = 200)
           => At(products', resp'.key[1]).created_at
                 = At(products, resp'.key[1]).created_at ]_vars

\* C13: every response is a success or the one signal of its failure kind,
\* whichever handler answers: 400 for Conflict, 404 for NotFound, and 422 for
\* a validation failure, on Update (the merged record included) as on
\* Create.
C13_FailureSignals ==
    /\ resp.op \in {"create_business", "create_product"}
          => resp.status \in {201, 400, 422}
    /\ resp.op \in {"update_business", "update_product"}
          => resp.status \in {200, 404, 422}
    /\ resp.op \in {"get_business", "get_product"}
          => resp.status \in {200, 404}
    /\ resp.op \in {"delete_business", "delete_product"}
          => resp.status \in {204, 404}
    /\ resp.op \in {"list_businesses", "list_products"}
          => resp.status = 200


\* Both interleaved requests have been answered.
BothDone ==
    /\ DOMAIN threads = Threads
    /\ \A t \in Threads : threads[t].pc = "done"

\* The record stored under the key carries the payload of request t.
StoredFrom(t) ==
    /\ Has(businesses, threads[t].key)
    /\ \A f \in DOMAIN threads[t].payload :
          Lookup(businesses, threads[t].key)[f] = threads[t].payload[f]

\* C14: of two interleaved creates with the same key, absent when they
\* arrive, exactly one answers 201 and the other 400, and the stored record
\* is the one of the request that answered 201.
C14_OneCreateWins ==
    (/\ BothDone
     /\ resp.op = "init"
     /\ \A t \in Threads : threads[t].op = "create_business")
    => \E w \in Threads :
          /\ threads[w].status = 201
          /\ \A l \in Threads \ {w} : threads[l].status = 400
          /\ StoredFrom(w)

\* C15: two interleaved updates of the same stored record that set disjoint
\* fields both take effect: the stored record carries every field either
\* payload set.
C15_NoLostUpdate ==
    (/\ BothDone
     /\ \A t \in Threads : threads[t].op = "update_business"
                           /\ threads[t].status = 200
     /\ threads[1].payload.set \cap threads[2].payload.set = {})
    => /\ Has(businesses, EIN1)
       /\ \A t \in Threads : \A f \in threads[t].payload.set :
             Lookup(businesses, EIN1)[f] = threads[t].payload.fields[f]

\* C16: a delete that answers 204, interleaved with an update or a get of
\* the same key, leaves the other request answered 200 or 404 and the key
\* absent once both are answered.
C16_DeleteSerializable ==
    (/\ BothDone
     /\ \E d \in Threads :
           /\ threads[d].op = "delete_business"
           /\ threads[d].status = 204
           /\ \A o \in Threads \ {d} :
                 threads[o].op \in {"update_business", "get_business"})
    => /\ \A o \in Threads :
             threads[o].op \in {"update_business", "get_business"}
             => threads[o].status \in {200, 404}
       /\ ~Has(businesses, EIN1)


\* The outcome of each product request, written as a function of the Product
\* Store P, the time t and the request, and of nothing else.
Outcome(P, r) == [products |-> P, resp |-> r]

CreateProductOutcome(P, t, product) ==
    IF Has(P, product.product_id[1])
    THEN Outcome(P, Response("create_product", product.product_id, 400, None))
    ELSE LET read == ProductRead(product, t)
         IN IF read.ok
            THEN Outcome(Assign(P, read.value.product_id[1], read.value),
                         Response("create_product", product.product_id, 201,
                                  Some(read.value)))
            ELSE Outcome(P, Response("create_product", product.product_id,
                                     500, None))

GetProductOutcome(P, product_id) ==
    IF Has(P, product_id)
    THEN Outcome(P, Response("get_product", Some(product_id), 200,
                             Some(Lookup(P, product_id))))
    ELSE Outcome(P, Response("get_product", Some(product_id), 404, None))

UpdateProductOutcome(P, t, product_id, update) ==
    IF ~Has(P, product_id)
    THEN Outcome(P, Response("update_product", Some(product_id), 404, None))
    ELSE LET read == ProductRead(DictUpdate(Lookup(P, product_id),
                                            ProductUpdateDump(update)), t)
         IN IF read.ok
            THEN Outcome(Assign(P, product_id, read.value),
                         Response("update_product", Some(product_id), 200,
                                  Some(read.value)))
            ELSE Outcome(P, Response("update_product", Some(product_id), 500,
                                     None))

DeleteProductOutcome(P, product_id) ==
    IF Has(P, product_id)
    THEN Outcome(Del(P, product_id),
                 Response("delete_product", Some(product_id), 204, None))
    ELSE Outcome(P, Response("delete_product", Some(product_id), 404, None))

ListProductsOutcome(P, product_id, name, business_ein, business_name) ==
    Outcome(P, Response("list_products", None, 200,
                        ProductResults(P, product_id, name, business_ein,
                                       business_name)))

IsOutcome(o) == products' = o.products /\ resp' = o.resp

\* C17: the response of every product request and the Product Store after it
\* are the function above of the Product Store before it, the time and the
\* request: whatever the Business Store holds, the same product request on
\* the same Product Store gives the same result and the same Product Store.
\* A create whose id is free answers 201 whether or not the embedded
\* business's EIN is a key of the Business Store.
C17_ProductsIgnoreBusinesses ==
    [][ /\ resp'.op = "create_product"
           => \A raw \in RawProductCreates :
                 LET product == ProductCreate(raw)
                 IN IF product.ok
                    THEN (resp'.key = product.value.product_id
                          /\ create_product(product.value))
                         => /\ IsOutcome(CreateProductOutcome(
                                            products, now, product.value))
                            /\ ~Has(products, product.value.product_id[1])
                               => resp'.status = 201
                    ELSE resp'.status = 422 => products' = products
        /\ resp'.op = "update_product"
           => \A product_id \in PathProductIds, raw \in RawProductUpdates :
                 LET update == ProductUpdate(raw)
                 IN IF update.ok
                    THEN (resp'.key = Some(product_id)
                          /\ update_product(product_id, update.value))
                         => IsOutcome(UpdateProductOutcome(
                                         products, now, product_id,
                                         update.value))
                    ELSE resp'.status = 422 => products' = products
        /\ resp'.op = "get_product"
           => \A product_id \in PathProductIds :
                 (resp'.key = Some(product_id) /\ get_product(product_id))
                 => IsOutcome(GetProductOutcome(products, product_id))
        /\ resp'.op = "delete_product"
           => \A product_id \in PathProductIds :
                 (resp'.key = Some(product_id) /\ delete_product(product_id))
                 => IsOutcome(DeleteProductOutcome(products, product_id))
        /\ resp'.op = "list_products"
           => \A product_id \in ProductIdFilters, name \in ProductNameFilters,
                 business_ein \in BusinessEinFilters,
                 business_name \in BusinessNameFilters :
                 list_products(product_id, name, business_ein, business_name)
                 => IsOutcome(ListProductsOutcome(
                                 products, product_id, name, business_ein,
                                 business_name))
      ]_vars

\* A product was created while the Business Store held a business, and not
\* the one embedded in the product.
C17_Witness ==
    /\ resp.op = "create_product"
    /\ resp.status = 201
    /\ businesses # <<>>
    /\ resp.body[1].business[1].ein[1] \notin Keys(businesses)


\* C18: the record stored under key k has its key field equal to k: ein in
\* the Business Store, product_id in the Product Store.
C18_KeyIsKeyField ==
    /\ \A i \in 1..Len(businesses) :
          businesses[i].val.ein = Some(businesses[i].key)
    /\ \A i \in 1..Len(products) :
          products[i].val.product_id = Some(products[i].key)

KeysAndSizeKept(d, e) == Keys(e) = Keys(d) /\ Len(e) = Len(d)

Added(d, e, k) ==
    /\ k \notin Keys(d)
    /\ Keys(e) = Keys(d) \cup {k}
    /\ Len(e) = Len(d) + 1

Removed(d, e, k) ==
    /\ k \in Keys(d)
    /\ Keys(e) = Keys(d) \ {k}
    /\ Len(e) = Len(d) - 1

\* C19: a create that answers 201 adds exactly its key to its store, a delete
\* that answers 204 removes exactly its key from its store, and every other
\* step (every update, get and list, every failed request) keeps the key set
\* and the size of both stores.
C19_KeySetFrame ==
    [][ IF resp'.op = "create_business" /\ resp'.status = 201
        THEN /\ Added(businesses, businesses', resp'.key[1])
             /\ KeysAndSizeKept(products, products')
        ELSE IF resp'.op = "create_product" /\ resp'.status = 201
        THEN /\ Added(products, products', resp'.key[1])
             /\ KeysAndSizeKept(businesses, businesses')
        ELSE IF resp'.op = "delete_business" /\ resp'.status = 204
        THEN /\ Removed(businesses, businesses', resp'.key[1])
             /\ KeysAndSizeKept(products, products')
        ELSE IF resp'.op = "delete_product" /\ resp'.status = 204
        THEN /\ Removed(products, products', resp'.key[1])
             /\ KeysAndSizeKept(businesses, businesses')
        ELSE /\ KeysAndSizeKept(businesses, businesses')
             /\ KeysAndSizeKept(products, products')
      ]_vars

\* An update changed the ein of a stored business to an ein that is not a
\* key, and the record is still under its old key.
C19_Witness ==
    /\ resp.op = "update_business"
    /\ resp.status = 200
    /\ resp.body[1].ein # resp.key
    /\ resp.key[1] \in Keys(businesses)
    /\ resp.body[1].ein[1] \notin Keys(businesses)

====
